---- MODULE Spec2Model ----
(***************************************************************************)
(* Model of internal/metrics/update.go: the metrics worker processMetrics  *)
(* (connect / initialise / drain / select / teardown / backoff loop), the  *)
(* registry builder initialiseMetrics, the updater updateMetrics and the   *)
(* key builder makeKey, together with the callers that use the unbuffered  *)
(* requestChannel / responseChannel pair.                                  *)
(*                                                                         *)
(* Go strings are modelled as sequences of one-character strings so that   *)
(* concatenation (makeKey) and substring search (strings.Contains) are     *)
(* computed, not assumed.                                                  *)
(***************************************************************************)
EXTENDS Integers, Sequences, FiniteSets, TLC

VARIABLES
    pc,           \* position of the worker goroutine inside processMetrics
    keepRunning,  \* update.go:47
    first,        \* update.go:48
    wgDone,       \* number of wg.Done() calls made so far
    err,          \* processMetrics local err: "nil", "connect" or "drain"
    collect,      \* value received from requestChannel in the select
    lifetime,     \* number of successful connects so far
    Metrics,      \* mqmetric.Metrics: the discovered catalog
    Values,       \* MonElement.Values of every element of the catalog
    metrics,      \* processMetrics local metrics: the registry
    metricsOf,    \* connection lifetime in which metrics was built
    initErr,      \* error result of the last initialiseMetrics (discarded by the caller)
    initFirst,    \* for every key, the element the last initialiseMetrics met first
    cpc,          \* position of every caller
    cflag,        \* flag a caller sends on requestChannel
    snap,         \* lifetime of the registry a caller holds a reference to (0: none)
    mutex,        \* the callers' own mutual exclusion around the exchange
    hist          \* history of the worker, for the properties only

vars == <<pc, keepRunning, first, wgDone, err, collect, lifetime, Metrics, Values,
          metrics, metricsOf, initErr, initFirst, cpc, cflag, snap, mutex, hist>>

(***************************************************************************)
(* Bounds                                                                  *)
(***************************************************************************)
\* successful connects in one run of the worker
MaxConnects == 2
\* samples the source holds in its caches at any one time
MaxSamples == 2

Callers == {"c1", "c2"}
Labels == {"a", "b"}
RawValues == {-1, 1}

NoCaller == "none"
EmptyMap == [l \in {} |-> 0]

(***************************************************************************)
(* Strings                                                                 *)
(***************************************************************************)
\* strings.Contains(s, sub)
Contains(s, sub) ==
    \E i \in 1..(Len(s) - Len(sub) + 1) : SubSeq(s, i, i + Len(sub) - 1) = sub

PlaceHolder == <<"%", "s">>

(***************************************************************************)
(* Catalogs: Classes -> Types -> Elements, as discovered at connect time   *)
(***************************************************************************)
Elem(n, d, dt) == [MetricName |-> n, Description |-> d, Datatype |-> dt]
Type(n, topic, es) == [Name |-> n, ObjectTopic |-> topic, Elements |-> es]
Class(n, ts) == [Name |-> n, Types |-> ts]

\* two elements with distinct keys, in two types of one class
CatPlain ==
    [Classes |-> <<Class(<<"C">>, <<
        Type(<<"T">>, <<"t">>, <<Elem(<<"x">>, "dx", "unit")>>),
        Type(<<"U">>, <<"%", "t", "s">>, <<Elem(<<"x">>, "dy", "hundredths")>>) >>)>>]

\* one plain type and one type with a parameterized topic
CatParam ==
    [Classes |-> <<Class(<<"C">>, <<
        Type(<<"T">>, <<"t">>, <<Elem(<<"x">>, "dx", "hundredths")>>),
        Type(<<"Q">>, <<"q", "/", "%", "s">>, <<Elem(<<"d">>, "dd", "unit")>>) >>)>>]

\* two elements of two classes whose keys coincide: "C/T" + "/" + "U" + "/" + "x"
\* and "C" + "/" + "T/U" + "/" + "x"
CatDup ==
    [Classes |-> <<
        Class(<<"C", "/", "T">>, <<Type(<<"U">>, <<"t">>, <<Elem(<<"x">>, "d1", "unit")>>)>>),
        Class(<<"C">>, <<Type(<<"T", "/", "U">>, <<"u">>, <<Elem(<<"x">>, "d2", "hundredths")>>)>>) >>]

Catalogs == {CatPlain, CatParam, CatDup}

NoCatalog == [Classes |-> << >>]

\* every element of a catalog, named by its path <<class, type, element>>
Paths(cat) ==
    UNION { UNION { { <<c, t, e>> : e \in DOMAIN cat.Classes[c].Types[t].Elements }
                    : t \in DOMAIN cat.Classes[c].Types }
            : c \in DOMAIN cat.Classes }

ClassOf(cat, p) == cat.Classes[p[1]]
TypeOf(cat, p) == cat.Classes[p[1]].Types[p[2]]
ElementOf(cat, p) == cat.Classes[p[1]].Types[p[2]].Elements[p[3]]

\* the orders in which the nested range loops can visit the elements: the
\* classes, types and elements are Go maps, so each level is visited in an
\* arbitrary order, but the elements of one type (and the types of one class)
\* are visited together
IterOrders(cat) ==
    LET P == Paths(cat)
        n == Cardinality(P)
    IN { o \in [1..n -> P] :
            /\ \A i, j \in 1..n : o[i] = o[j] => i = j
            /\ \A i, j, k \in 1..n :
                  (i < j /\ j < k) =>
                     /\ (o[i][1] = o[k][1] => o[j][1] = o[i][1])
                     /\ (o[i][1] = o[k][1] /\ o[i][2] = o[k][2]
                            => (o[j][1] = o[i][1] /\ o[j][2] = o[i][2])) }

\* Plain without the test of the topic: no type is skipped
PlainAlways(cat, p) == TRUE

\* !strings.Contains(metricType.ObjectTopic, "%s")
Plain(cat, p) == ~Contains(TypeOf(cat, p).ObjectTopic, PlaceHolder)

(***************************************************************************)
(* makeKey, initialiseMetrics, updateMetrics                               *)
(***************************************************************************)
\* makeKey without the grandparent's name
makeKeyShort(cat, p) ==
    TypeOf(cat, p).Name \o <<"/">> \o ElementOf(cat, p).MetricName

makeKey(cat, p) ==
    ClassOf(cat, p).Name \o <<"/">> \o TypeOf(cat, p).Name \o <<"/">> \o ElementOf(cat, p).MetricName

\* metricData{name, description}: values is the nil map
metricData(el) == [name |-> el.MetricName, description |-> el.Description, values |-> EmptyMap]

\* m with key k set to v (m[k] = v on a Go map)
MapSet(m, k, v) == [x \in DOMAIN m \cup {k} |-> IF x = k THEN v ELSE m[x]]

\* initStep with a duplicate key overwriting the entry
initStepOverwrite(cat, p, acc) ==
    IF ~Plain(cat, p) THEN acc
    ELSE LET key == makeKey(cat, p)
         IN IF key \notin DOMAIN acc.metrics
               THEN [acc EXCEPT !.metrics = MapSet(acc.metrics, key, metricData(ElementOf(cat, p)))]
               ELSE [metrics |-> MapSet(acc.metrics, key, metricData(ElementOf(cat, p))),
                     validMetrics |-> FALSE]

\* one iteration of the innermost loop of initialiseMetrics
initStep(cat, p, acc) ==
    IF ~Plain(cat, p) THEN acc
    ELSE LET key == makeKey(cat, p)
         IN IF key \notin DOMAIN acc.metrics
               THEN [acc EXCEPT !.metrics = MapSet(acc.metrics, key, metricData(ElementOf(cat, p)))]
               ELSE [acc EXCEPT !.validMetrics = FALSE]

RECURSIVE initLoop(_, _, _, _)
initLoop(cat, order, i, acc) ==
    IF i > Len(order) THEN acc
    ELSE initLoop(cat, order, i + 1, initStep(cat, order[i], acc))

\* initialiseMetrics: the registry and whether the returned error is nil
initialiseMetrics(cat, order) ==
    initLoop(cat, order, 1, [metrics |-> EmptyMap, validMetrics |-> TRUE])

\* mqmetric.Normalise: negative samples are reported as 0, and the value is
\* scaled according to the element's datatype
Normalise(el, label, value) ==
    LET f == IF value < 0 THEN 0 ELSE value
    IN IF el.Datatype = "hundredths" THEN [num |-> f, den |-> 100]
       ELSE [num |-> f, den |-> 1]

\* the fresh values map filled from the cached samples of one element
freshValues(el, cache) == [l \in DOMAIN cache |-> Normalise(el, l, cache[l])]

\* updateStep merging the samples into the previous values instead of replacing them
updateStepMerge(cat, p, acc) ==
    IF ~Plain(cat, p) THEN acc
    ELSE LET key == makeKey(cat, p)
             old == acc.metrics[key].values
             new == freshValues(ElementOf(cat, p), acc.Values[p])
         IN [metrics |-> [acc.metrics EXCEPT ![key].values =
                             [l \in DOMAIN old \cup DOMAIN new |->
                                 IF l \in DOMAIN new THEN new[l] ELSE old[l]]],
             Values  |-> [acc.Values EXCEPT ![p] = EmptyMap]]

\* updateStep storing a new entry made from the element instead of rewriting
\* the values of the existing one
updateStepRebuild(cat, p, acc) ==
    IF ~Plain(cat, p) THEN acc
    ELSE LET key == makeKey(cat, p)
             el  == ElementOf(cat, p)
         IN [metrics |-> MapSet(acc.metrics, key,
                                [metricData(el) EXCEPT !.values = freshValues(el, acc.Values[p])]),
             Values  |-> [acc.Values EXCEPT ![p] = EmptyMap]]

\* updateStep leaving the entry as it is when the element has no cached sample
updateStepSkipEmpty(cat, p, acc) ==
    IF ~Plain(cat, p) THEN acc
    ELSE LET key == makeKey(cat, p)
         IN IF acc.Values[p] = EmptyMap THEN acc
            ELSE [metrics |-> [acc.metrics EXCEPT ![key].values = freshValues(ElementOf(cat, p), acc.Values[p])],
                  Values  |-> [acc.Values EXCEPT ![p] = EmptyMap]]

\* updateStep without the reset of the element's cached samples
updateStepNoReset(cat, p, acc) ==
    IF ~Plain(cat, p) THEN acc
    ELSE LET key == makeKey(cat, p)
         IN [metrics |-> [acc.metrics EXCEPT ![key].values = freshValues(ElementOf(cat, p), acc.Values[p])],
             Values  |-> acc.Values]

\* one iteration of the innermost loop of updateMetrics
updateStep(cat, p, acc) ==
    IF ~Plain(cat, p) THEN acc
    ELSE LET key == makeKey(cat, p)
         IN [metrics |-> [acc.metrics EXCEPT ![key].values = freshValues(ElementOf(cat, p), acc.Values[p])],
             Values  |-> [acc.Values EXCEPT ![p] = EmptyMap]]

RECURSIVE updateLoop(_, _, _, _)
updateLoop(cat, order, i, acc) ==
    IF i > Len(order) THEN acc
    ELSE updateLoop(cat, order, i + 1, updateStep(cat, order[i], acc))

\* updateMetrics: the registry and the element caches after the call
updateMetrics(m, cat, vals, order) ==
    updateLoop(cat, order, 1, [metrics |-> m, Values |-> vals])


(***************************************************************************)
(* The worker: processMetrics                                              *)
(***************************************************************************)
NoValues == [p \in {} |-> EmptyMap]

Hist0 == [last |-> "start", ends |-> 0, updLast |-> << >>, attempted |-> FALSE, connOK |-> FALSE, logged |-> FALSE,
          ended |-> FALSE, slept |-> FALSE, drained |-> NoValues, quiet |-> FALSE,
          twice |-> FALSE, dropped |-> FALSE]

Init ==
    /\ pc = "top"
    /\ keepRunning = TRUE
    /\ first = TRUE
    /\ wgDone = 0
    /\ err = "nil"
    /\ collect = FALSE
    /\ lifetime = 0
    /\ Metrics = NoCatalog
    /\ Values = NoValues
    /\ metrics = EmptyMap
    /\ metricsOf = 0
    /\ initErr = "nil"
    /\ initFirst = EmptyMap
    /\ cpc = [c \in Callers |-> "idle"]
    /\ cflag = [c \in Callers |-> FALSE]
    /\ snap = [c \in Callers |-> 0]
    /\ mutex = NoCaller
    /\ hist = Hist0

callerVars == <<cpc, cflag, snap, mutex>>
sourceVars == <<Metrics, Values>>
registryVars == <<metrics, metricsOf, initErr, initFirst>>

\* LoopTest with a retry limit: the worker gives up after a failed pass
LoopTestGiveUp ==
    /\ pc = "top"
    /\ pc' = IF keepRunning /\ err = "nil" THEN "connect" ELSE "stopped"
    /\ hist' = [hist EXCEPT !.last = "test"]
    /\ UNCHANGED <<keepRunning, first, wgDone, err, collect, lifetime>>
    /\ UNCHANGED <<sourceVars, registryVars, callerVars>>

\* for keepRunning { ... }: the loop condition, read at the top of each pass.
\* keepRunning is written by another goroutine without synchronisation, so
\* after it was cleared the read yields the new value or still the old one
LoopTest ==
    /\ pc = "top"
    /\ \E seen \in (IF keepRunning THEN {TRUE} ELSE {TRUE, FALSE}) :
          pc' = IF seen THEN "connect" ELSE "stopped"
    /\ hist' = [hist EXCEPT !.last = "test"]
    /\ UNCHANGED <<keepRunning, first, wgDone, err, collect, lifetime>>
    /\ UNCHANGED <<sourceVars, registryVars, callerVars>>

\* err = doConnect(qmName) returning nil: the catalog is discovered afresh
DoConnectOK ==
    /\ pc = "connect"
    /\ lifetime < MaxConnects
    /\ err' = "nil"
    /\ lifetime' = lifetime + 1
    /\ \E cat \in Catalogs :
          /\ Metrics' = cat
          /\ Values' = [p \in Paths(cat) |-> EmptyMap]
    /\ pc' = "connected"
    /\ hist' = [hist EXCEPT !.last = "connect", !.attempted = TRUE, !.ends = 0, !.connOK = TRUE,
                            !.logged = FALSE, !.ended = FALSE, !.slept = FALSE,
                            !.drained = Values', !.quiet = FALSE]
    /\ UNCHANGED <<keepRunning, first, wgDone, collect>>
    /\ UNCHANGED <<registryVars, callerVars>>

\* DoConnectFail with the failed attempt followed by "continue": no log, no
\* teardown, no backoff
DoConnectFailContinue ==
    /\ pc = "connect"
    /\ err' = "connect"
    /\ pc' = "top"
    /\ hist' = [hist EXCEPT !.last = "connect", !.attempted = TRUE, !.ends = 0, !.connOK = FALSE,
                            !.logged = FALSE, !.ended = FALSE, !.slept = FALSE]
    /\ UNCHANGED <<keepRunning, first, wgDone, collect, lifetime>>
    /\ UNCHANGED <<sourceVars, registryVars, callerVars>>

\* DoConnectFail with the error ignored: the inner loop is entered
DoConnectFailServe ==
    /\ pc = "connect"
    /\ err' = "nil"
    /\ pc' = "drain"
    /\ hist' = [hist EXCEPT !.last = "connect", !.attempted = TRUE, !.ends = 0, !.connOK = FALSE,
                            !.logged = FALSE, !.ended = FALSE, !.slept = FALSE]
    /\ UNCHANGED <<keepRunning, first, wgDone, collect, lifetime>>
    /\ UNCHANGED <<sourceVars, registryVars, callerVars>>

\* DoConnectFail with the teardown made only for an established connection:
\* the failure is logged and the worker goes straight to the backoff
DoConnectFailNoEnd ==
    /\ pc = "connect"
    /\ err' = "connect"
    /\ pc' = "sleep"
    /\ hist' = [hist EXCEPT !.last = "log", !.attempted = TRUE, !.ends = 0, !.connOK = FALSE,
                            !.logged = TRUE, !.ended = FALSE, !.slept = FALSE]
    /\ UNCHANGED <<keepRunning, first, wgDone, collect, lifetime>>
    /\ UNCHANGED <<sourceVars, registryVars, callerVars>>

\* err = doConnect(qmName) returning an error: the inner loop is not entered
DoConnectFail ==
    /\ pc = "connect"
    /\ err' = "connect"
    /\ pc' = "log"
    /\ hist' = [hist EXCEPT !.last = "connect", !.attempted = TRUE, !.ends = 0, !.connOK = FALSE,
                            !.logged = FALSE, !.ended = FALSE, !.slept = FALSE]
    /\ UNCHANGED <<keepRunning, first, wgDone, collect, lifetime>>
    /\ UNCHANGED <<sourceVars, registryVars, callerVars>>

\* SignalStartup without the test of first: wg.Done() on every successful connect
SignalStartupEveryTime ==
    /\ pc = "connected"
    /\ first' = FALSE
    /\ wgDone' = wgDone + 1
    /\ pc' = "init"
    /\ hist' = [hist EXCEPT !.last = "signal"]
    /\ UNCHANGED <<keepRunning, err, collect, lifetime>>
    /\ UNCHANGED <<sourceVars, registryVars, callerVars>>

\* if first { first = false; wg.Done() }
SignalStartup ==
    /\ pc = "connected"
    /\ IF first
          THEN first' = FALSE /\ wgDone' = wgDone + 1
          ELSE UNCHANGED <<first, wgDone>>
    /\ pc' = "init"
    /\ hist' = [hist EXCEPT !.last = "signal"]
    /\ UNCHANGED <<keepRunning, err, collect, lifetime>>
    /\ UNCHANGED <<sourceVars, registryVars, callerVars>>

\* the first element with key k that the loops of initialiseMetrics visit in this order
firstVisited(cat, order, k) ==
    LET is == { i \in DOMAIN order : Plain(cat, order[i]) /\ makeKey(cat, order[i]) = k }
    IN order[CHOOSE i \in is : \A j \in is : i <= j]

\* BuildRegistry with the registry built on the first connection only
BuildRegistryOnce ==
    /\ pc = "init"
    /\ IF metricsOf = 0
          THEN /\ \E order \in IterOrders(Metrics) :
                     LET r == initialiseMetrics(Metrics, order)
                     IN /\ metrics' = r.metrics
                        /\ initErr' = IF r.validMetrics THEN "nil" ELSE "duplicate"
                        /\ initFirst' = [k \in DOMAIN r.metrics |-> firstVisited(Metrics, order, k)]
               /\ metricsOf' = lifetime
          ELSE UNCHANGED registryVars
    /\ pc' = "drain"
    /\ hist' = [hist EXCEPT !.last = "init"]
    /\ UNCHANGED <<keepRunning, first, wgDone, err, collect, lifetime>>
    /\ UNCHANGED <<sourceVars, callerVars>>

\* metrics, _ = initialiseMetrics(log)
BuildRegistry ==
    /\ pc = "init"
    /\ \E order \in IterOrders(Metrics) :
          LET r == initialiseMetrics(Metrics, order)
          IN /\ metrics' = r.metrics
             /\ initErr' = IF r.validMetrics THEN "nil" ELSE "duplicate"
             /\ initFirst' = [k \in DOMAIN r.metrics |-> firstVisited(Metrics, order, k)]
    /\ metricsOf' = lifetime
    /\ pc' = "drain"
    /\ hist' = [hist EXCEPT !.last = "init"]
    /\ UNCHANGED <<keepRunning, first, wgDone, err, collect, lifetime>>
    /\ UNCHANGED <<sourceVars, callerVars>>

\* number of samples held in the caches
RECURSIVE SampleCount(_, _)
SampleCount(vals, ps) ==
    IF ps = {} THEN 0
    ELSE LET p == CHOOSE q \in ps : TRUE
         IN Cardinality(DOMAIN vals[p]) + SampleCount(vals, ps \ {p})

\* what one round of publication processing can leave in the caches: nothing
\* new, or a sample with a label of L and a raw value of R for some element
DrainOutcomes(L, R) ==
    {Values} \cup
    { vals \in { [Values EXCEPT ![p] = MapSet(@, l, v)] : p \in DOMAIN Values, l \in L, v \in R } :
        SampleCount(vals, DOMAIN vals) <= MaxSamples }

\* err = mqmetric.ProcessPublications()
ProcessPublications(L, R) ==
    /\ pc = "drain"
    /\ \E vals \in DrainOutcomes(L, R) :
          /\ Values' = vals
          /\ hist' = [hist EXCEPT !.last = "drain", !.drained = vals, !.quiet = (hist.quiet /\ vals = Values)]
    /\ \E e \in {"nil", "drain"} : err' = e
    /\ pc' = "select"
    /\ UNCHANGED <<keepRunning, first, wgDone, collect, lifetime, Metrics>>
    /\ UNCHANGED <<registryVars, callerVars>>

\* AfterSelect with the inner loop also left when keepRunning is cleared
AfterSelectChecksFlag == IF err = "nil" /\ keepRunning THEN "drain" ELSE "log"

\* the test of "for err == nil" made after the select statement
AfterSelect == IF err = "nil" THEN "drain" ELSE "log"

\* Accept with the flag ignored: updateMetrics is never run before the reply
AcceptNoUpdate(c) ==
    /\ pc = "select"
    /\ cpc[c] = "sending"
    /\ collect' = cflag[c]
    /\ cpc' = [cpc EXCEPT ![c] = "waiting"]
    /\ cflag' = [cflag EXCEPT ![c] = FALSE]
    /\ pc' = "reply"
    /\ hist' = [hist EXCEPT !.last = "accept"]
    /\ UNCHANGED <<keepRunning, first, wgDone, err, lifetime, snap, mutex>>
    /\ UNCHANGED <<sourceVars, registryVars>>

\* Accept with updateMetrics run before the reply whatever the flag
AcceptAlwaysUpdate(c) ==
    /\ pc = "select"
    /\ cpc[c] = "sending"
    /\ collect' = cflag[c]
    /\ cpc' = [cpc EXCEPT ![c] = "waiting"]
    /\ cflag' = [cflag EXCEPT ![c] = FALSE]
    /\ pc' = "update"
    /\ hist' = [hist EXCEPT !.last = "accept"]
    /\ UNCHANGED <<keepRunning, first, wgDone, err, lifetime, snap, mutex>>
    /\ UNCHANGED <<sourceVars, registryVars>>

\* Accept with a request of flag false dropped without a response
AcceptKeepSelecting(c) ==
    /\ pc = "select"
    /\ cpc[c] = "sending"
    /\ collect' = cflag[c]
    /\ cpc' = [cpc EXCEPT ![c] = "waiting"]
    /\ cflag' = [cflag EXCEPT ![c] = FALSE]
    /\ pc' = IF cflag[c] THEN "update" ELSE "select"
    /\ hist' = [hist EXCEPT !.last = "accept"]
    /\ UNCHANGED <<keepRunning, first, wgDone, err, lifetime, snap, mutex>>
    /\ UNCHANGED <<sourceVars, registryVars>>

\* case collect := <-requestChannel: rendezvous with the caller c blocked in its send
Accept(c) ==
    /\ pc = "select"
    /\ cpc[c] = "sending"
    /\ collect' = cflag[c]
    /\ cpc' = [cpc EXCEPT ![c] = "waiting"]
    /\ cflag' = [cflag EXCEPT ![c] = FALSE]
    /\ pc' = IF cflag[c] THEN "update" ELSE "reply"
    /\ hist' = [hist EXCEPT !.last = "accept"]
    /\ UNCHANGED <<keepRunning, first, wgDone, err, lifetime, snap, mutex>>
    /\ UNCHANGED <<sourceVars, registryVars>>

\* some label of some entry of m is missing from the same entry of n
LabelDropped(m, n) ==
    \E k \in DOMAIN m : \E l \in DOMAIN m[k].values : l \notin DOMAIN n[k].values

\* for every key the loops of updateMetrics reach in this order, the last
\* element with that key that they visit
lastVisited(cat, order) ==
    LET at(k) == { i \in DOMAIN order : Plain(cat, order[i]) /\ makeKey(cat, order[i]) = k }
        ks    == { makeKey(cat, order[i]) : i \in { j \in DOMAIN order : Plain(cat, order[j]) } }
    IN [k \in ks |-> order[CHOOSE i \in at(k) : \A j \in at(k) : j <= i]]

\* if collect { updateMetrics(metrics) }
RunUpdate ==
    /\ pc = "update"
    /\ \E order \in IterOrders(Metrics) :
          LET r == updateMetrics(metrics, Metrics, Values, order)
          IN /\ metrics' = r.metrics
             /\ Values' = r.Values
             /\ hist' = [hist EXCEPT !.last = "update", !.twice = hist.quiet, !.quiet = TRUE,
                                     !.dropped = LabelDropped(metrics, r.metrics),
                                     !.updLast = lastVisited(Metrics, order)]
    /\ pc' = "reply"
    /\ UNCHANGED <<keepRunning, first, wgDone, err, collect, lifetime, Metrics>>
    /\ UNCHANGED <<metricsOf, initErr, initFirst, callerVars>>

\* Reply with a send that does not wait for a receiver: the worker goes on
\* when no caller is blocked in its receive
ReplyNonBlocking(c) ==
    /\ pc = "reply"
    /\ cpc[c] = "waiting" \/ \A d \in DOMAIN cpc : cpc[d] # "waiting"
    /\ cpc' = IF cpc[c] = "waiting" THEN [cpc EXCEPT ![c] = "reading"] ELSE cpc
    /\ snap' = IF cpc[c] = "waiting" THEN [snap EXCEPT ![c] = metricsOf] ELSE snap
    /\ mutex' = IF cpc[c] = "waiting" /\ mutex = c THEN NoCaller ELSE mutex
    /\ collect' = FALSE
    /\ pc' = AfterSelect
    /\ hist' = [hist EXCEPT !.last = "reply", !.twice = FALSE, !.dropped = FALSE,
                            !.updLast = << >>]
    /\ UNCHANGED <<keepRunning, first, wgDone, err, lifetime, cflag>>
    /\ UNCHANGED <<sourceVars, registryVars>>

\* responseChannel <- metrics: rendezvous with the caller c blocked in its receive;
\* collect goes out of scope with the case clause
Reply(c) ==
    /\ pc = "reply"
    /\ cpc[c] = "waiting"
    /\ cpc' = [cpc EXCEPT ![c] = "reading"]
    /\ snap' = [snap EXCEPT ![c] = metricsOf]
    /\ mutex' = IF mutex = c THEN NoCaller ELSE mutex
    /\ collect' = FALSE
    /\ pc' = AfterSelect
    /\ hist' = [hist EXCEPT !.last = "reply", !.twice = FALSE, !.dropped = FALSE,
                            !.updLast = << >>]
    /\ UNCHANGED <<keepRunning, first, wgDone, err, lifetime, cflag>>
    /\ UNCHANGED <<sourceVars, registryVars>>

\* case <-time.After(requestTimeout * time.Second): no request arrived in time
\* (with a caller already blocked in its send the receive case is ready at
\* once, so the timer case is not the one taken)
Timeout ==
    /\ pc = "select"
    /\ \A c \in Callers : cpc[c] # "sending"
    /\ pc' = AfterSelect
    /\ hist' = [hist EXCEPT !.last = "timeout"]
    /\ UNCHANGED <<keepRunning, first, wgDone, err, collect, lifetime>>
    /\ UNCHANGED <<sourceVars, registryVars, callerVars>>

\* log.Errorf("Metrics Error: %s", err.Error())
LogError ==
    /\ pc = "log"
    /\ pc' = "end"
    /\ hist' = [hist EXCEPT !.last = "log", !.logged = TRUE]
    /\ UNCHANGED <<keepRunning, first, wgDone, err, collect, lifetime>>
    /\ UNCHANGED <<sourceVars, registryVars, callerVars>>

\* mqmetric.EndConnection()
EndConnection ==
    /\ pc = "end"
    /\ pc' = "sleep"
    /\ hist' = [hist EXCEPT !.last = "end", !.ended = TRUE, !.ends = hist.ends + 1]
    /\ UNCHANGED <<keepRunning, first, wgDone, err, collect, lifetime>>
    /\ UNCHANGED <<sourceVars, registryVars, callerVars>>

\* time.Sleep(10 * time.Second)
Backoff ==
    /\ pc = "sleep"
    /\ pc' = "top"
    /\ hist' = [hist EXCEPT !.last = "sleep", !.slept = TRUE]
    /\ UNCHANGED <<keepRunning, first, wgDone, err, collect, lifetime>>
    /\ UNCHANGED <<sourceVars, registryVars, callerVars>>

\* keepRunning cleared from outside the worker
Stop ==
    /\ keepRunning
    /\ keepRunning' = FALSE
    /\ UNCHANGED <<pc, first, wgDone, err, collect, lifetime, hist>>
    /\ UNCHANGED <<sourceVars, registryVars, callerVars>>

(***************************************************************************)
(* The callers: request-then-reply, the exchange serialised by a mutex     *)
(***************************************************************************)
\* take the callers' lock and block in requestChannel <- flag (the flag is
\* handed over at the rendezvous)
Request(c) ==
    /\ cpc[c] = "idle"
    /\ mutex = NoCaller
    /\ mutex' = c
    /\ \E f \in BOOLEAN : cflag' = [cflag EXCEPT ![c] = f]
    /\ cpc' = [cpc EXCEPT ![c] = "sending"]
    /\ UNCHANGED <<pc, keepRunning, first, wgDone, err, collect, lifetime, snap, hist>>
    /\ UNCHANGED <<sourceVars, registryVars>>

\* a caller that takes no lock blocks in requestChannel <- flag
RequestFree(c) ==
    /\ cpc[c] = "idle"
    /\ \E f \in BOOLEAN : cflag' = [cflag EXCEPT ![c] = f]
    /\ cpc' = [cpc EXCEPT ![c] = "sending"]
    /\ UNCHANGED <<pc, keepRunning, first, wgDone, err, collect, lifetime, snap, mutex, hist>>
    /\ UNCHANGED <<sourceVars, registryVars>>

\* a caller whose request was accepted goes away without receiving the response
Abandon(c) ==
    /\ cpc[c] = "waiting"
    /\ cpc' = [cpc EXCEPT ![c] = "idle"]
    /\ mutex' = IF mutex = c THEN NoCaller ELSE mutex
    /\ UNCHANGED <<pc, keepRunning, first, wgDone, err, collect, lifetime, cflag, snap, hist>>
    /\ UNCHANGED <<sourceVars, registryVars>>

\* the caller has finished reading the registry it received
Finish(c) ==
    /\ cpc[c] = "reading"
    /\ cpc' = [cpc EXCEPT ![c] = "idle"]
    /\ snap' = [snap EXCEPT ![c] = 0]
    /\ UNCHANGED <<pc, keepRunning, first, wgDone, err, collect, lifetime, cflag, mutex, hist>>
    /\ UNCHANGED <<sourceVars, registryVars>>

(***************************************************************************)
(* Specifications                                                          *)
(***************************************************************************)
\* the worker serving the callers of C, the source publishing samples with
\* the labels of L and the raw values of R
Worker(C, L, R) ==
    \/ LoopTest
    \/ DoConnectOK
    \/ DoConnectFail
    \/ SignalStartup
    \/ BuildRegistry
    \/ ProcessPublications(L, R)
    \/ RunUpdate
    \/ Timeout
    \/ LogError
    \/ EndConnection
    \/ Backoff
    \/ \E c \in C : Accept(c)
    \/ \E c \in C : Reply(c)

\* the worker and the callers of C, which serialise their exchanges
Run(C, L, R) ==
    \/ Worker(C, L, R)
    \/ \E c \in C : Request(c)
    \/ \E c \in C : Finish(c)

\* every caller, shutdown, one label and one raw value
Next ==
    \/ Run(Callers, {"a"}, {1})
    \/ Stop

Spec == Init /\ [][Next]_vars

\* one caller, every label and raw value
DataNext == Run({"c1"}, Labels, RawValues)

DataSpec == Init /\ [][DataNext]_vars

\* one caller, every label and raw value; the worker goroutine keeps being
\* scheduled, publication rounds return, and a caller blocked in a channel
\* operation completes it once the worker is at the matching operation
LiveNext == Run({"c1"}, {"a"}, RawValues)

LiveSpec == Init /\ [][LiveNext]_vars /\ WF_vars(LiveNext)

\* two callers that take no lock: each sends one request and then blocks for
\* one response
FreeNext ==
    \/ Worker(Callers, {"a"}, {1})
    \/ \E c \in Callers : RequestFree(c)
    \/ \E c \in Callers : Finish(c)

FreeSpec == Init /\ [][FreeNext]_vars

\* serialised callers that may go away while the worker holds their response
WedgeNext ==
    \/ Next
    \/ \E c \in Callers : Abandon(c)

WedgeSpec == Init /\ [][WedgeNext]_vars

(***************************************************************************)
(* Properties                                                              *)
(***************************************************************************)
\* the registry in metrics was built from the catalog now in Metrics
RegistryCurrent == lifetime >= 1 /\ metricsOf = lifetime

\* the key the documentation gives an element: grandparent/parent/metric name
KeyOf(cat, p) ==
    cat.Classes[p[1]].Name \o <<"/">> \o cat.Classes[p[1]].Types[p[2]].Name
        \o <<"/">> \o cat.Classes[p[1]].Types[p[2]].Elements[p[3]].MetricName

Parameterized(cat, p) == Contains(cat.Classes[p[1]].Types[p[2]].ObjectTopic, <<"%", "s">>)

PlainPaths(cat) == { p \in Paths(cat) : ~Parameterized(cat, p) }

DuplicateKeys(cat) ==
    \E p, q \in PlainPaths(cat) : p # q /\ KeyOf(cat, p) = KeyOf(cat, q)

UniqueKey(cat, p) ==
    \A q \in PlainPaths(cat) : KeyOf(cat, q) = KeyOf(cat, p) => q = p

InnerLoop == {"drain", "select", "update", "reply"}

\* C1: wg.Done() has been called exactly once from the first successful connect
\* on (the call follows that connect and precedes the building of the
\* registry), never a second time, and not at all while no connect succeeded
C1_StartupSignalledOnce ==
    /\ wgDone = IF lifetime = 0 \/ (lifetime = 1 /\ pc = "connected") THEN 0 ELSE 1
    /\ first = (wgDone = 0)
    /\ (metricsOf # 0 => wgDone = 1)
    /\ (pc = "init" /\ lifetime = 1 => wgDone = 1 /\ metricsOf = 0)

\* C1 witness: a second connect succeeded after a failure, and the barrier was signalled once
C1_Witness ==
    lifetime = 2 /\ metricsOf = 2 /\ wgDone = 1 /\ pc = "drain"

\* C2: the worker is never inside updateMetrics, rewriting the values of a
\* registry, while a caller that received that registry is still reading it
C2_NoUpdateWhileReading ==
    ~(pc = "update" /\ \E c \in Callers : cpc[c] = "reading" /\ snap[c] = metricsOf)

\* C3: a single caller blocked in its send while the worker is in the inner
\* loop eventually receives a response; no timeout fires between the
\* acceptance and the reply; and after a request with flag true the registry
\* sent, unchanged, as the response holds the normalised samples the most
\* recent drain left cached
C3_RequestAnswered ==
    /\ (cpc["c1"] = "sending" /\ pc \in {"drain", "select"}) ~> (cpc["c1"] = "reading")
    /\ [](pc \in {"update", "reply"} => hist.last \in {"accept", "update"})
    /\ [](pc = "reply" /\ collect =>
             \A k \in DOMAIN metrics :
                \E p \in PlainPaths(Metrics) :
                   /\ KeyOf(Metrics, p) = k
                   /\ metrics[k].values =
                         [l \in DOMAIN hist.drained[p] |->
                             Normalise(Metrics.Classes[p[1]].Types[p[2]].Elements[p[3]],
                                       l, hist.drained[p][l])])
    /\ [][pc = "reply" => metrics' = metrics /\ hist'.drained = hist.drained]_vars
    /\ [](hist.last = "reply" /\ cpc["c1"] = "reading" =>
             snap["c1"] = metricsOf /\ RegistryCurrent)
    /\ [](hist.last \in {"drain", "accept"} => hist.drained = Values)

\* C3 witness: the caller has just received a refreshed registry with a value in it
C3_Witness ==
    /\ hist.last = "reply" /\ cpc["c1"] = "reading" /\ snap["c1"] = metricsOf
    /\ hist.drained # Values
    /\ \E k \in DOMAIN metrics : metrics[k].values # EmptyMap

\* C4: once ProcessPublications has returned an error, the worker accepts no
\* request, runs no updateMetrics and sends no response before the teardown
C4_NoServiceAfterDrainError ==
    err = "drain" => hist.last \notin {"accept", "update", "reply"}

\* C5: whenever the worker is about to make a connect attempt that is not its
\* first, the previous attempt's error was logged, then the connection was
\* torn down, then the backoff sleep completed
C5_BackoffBetweenConnects ==
    /\ (pc = "connect" /\ hist.attempted => hist.logged /\ hist.ended /\ hist.slept)
    /\ (hist.slept => hist.ended)
    /\ (hist.ended => hist.logged)
    /\ (pc \in {"top", "connect"} => (hist.attempted <=> hist.slept))

\* C5 witness: after a drain failure the worker is back at the connect attempt
C5_Witness ==
    pc = "connect" /\ err = "drain" /\ hist.slept

\* C6: a request is accepted, and a response outstanding, only inside the
\* inner loop of a connection that succeeded and whose registry has been
\* built; outside the inner loop no caller is between request and response,
\* and what a caller holds is a registry built by a successful connection
C6_BlockedOutsideInnerLoop ==
    /\ \A c \in Callers :
          /\ (cpc[c] = "waiting" =>
                 pc \in {"update", "reply"} /\ hist.connOK /\ RegistryCurrent /\ ~hist.logged)
          /\ (cpc[c] = "reading" => snap[c] \in 1..lifetime)
    /\ (hist.last \in {"accept", "update", "reply"} =>
           hist.connOK /\ RegistryCurrent /\ ~hist.logged)
    /\ (pc \notin InnerLoop => \A c \in Callers : cpc[c] # "waiting")

\* C6 witness: a caller is blocked in its send while the worker sleeps in backoff
C6_Witness ==
    pc = "sleep" /\ cpc["c1"] = "sending" /\ hist.attempted

\* C7: for a catalog without parameterized types and without duplicate keys
\* the registry's keys are exactly the elements' keys, every entry carries its
\* element's name and description, and the returned error is nil
C7_RegistryKeys ==
    (/\ RegistryCurrent
     /\ PlainPaths(Metrics) = Paths(Metrics)
     /\ ~DuplicateKeys(Metrics))
    => /\ DOMAIN metrics = { KeyOf(Metrics, p) : p \in Paths(Metrics) }
       /\ \A p \in Paths(Metrics) :
             /\ metrics[KeyOf(Metrics, p)].name =
                   Metrics.Classes[p[1]].Types[p[2]].Elements[p[3]].MetricName
             /\ metrics[KeyOf(Metrics, p)].description =
                   Metrics.Classes[p[1]].Types[p[2]].Elements[p[3]].Description
       /\ initErr = "nil"

\* C7 witness: a registry of two entries built from such a catalog
C7_Witness ==
    /\ RegistryCurrent
    /\ PlainPaths(Metrics) = Paths(Metrics)
    /\ ~DuplicateKeys(Metrics)
    /\ Cardinality(DOMAIN metrics) = 2

\* C8: for a catalog with a duplicate key initialiseMetrics returns a non-nil
\* error and a registry in which every entry is the first-iterated element's;
\* the worker goes on into the inner loop with that registry
C8_DuplicateKeysKept ==
    (RegistryCurrent /\ DuplicateKeys(Metrics))
    => /\ initErr = "duplicate"
       /\ DOMAIN metrics = { KeyOf(Metrics, p) : p \in PlainPaths(Metrics) }
       /\ \A k \in DOMAIN metrics :
             LET f == initFirst[k]
             IN /\ KeyOf(Metrics, f) = k
                /\ ~Parameterized(Metrics, f)
                /\ metrics[k].name = Metrics.Classes[f[1]].Types[f[2]].Elements[f[3]].MetricName
                /\ metrics[k].description =
                      Metrics.Classes[f[1]].Types[f[2]].Elements[f[3]].Description
       /\ (hist.last = "init" => pc = "drain" /\ err = "nil")

\* C8 witness: a caller has been answered with the registry of a catalog with a
\* duplicate key, the later-listed element having been iterated first
C8_Witness ==
    /\ RegistryCurrent /\ DuplicateKeys(Metrics) /\ initErr = "duplicate"
    /\ \E k \in DOMAIN metrics : initFirst[k] = <<2, 1, 1>>
    /\ hist.last = "reply"
    /\ \E c \in Callers : cpc[c] = "reading" /\ snap[c] = lifetime

\* C9: right after updateMetrics, for every non-parameterized element with a
\* unique key, the entry's values are exactly the normalised cached samples
\* and the element's cache is empty
C9_ValuesReplaced ==
    hist.last = "update" =>
       \A p \in PlainPaths(Metrics) :
          UniqueKey(Metrics, p) =>
             /\ metrics[KeyOf(Metrics, p)].values =
                   [l \in DOMAIN hist.drained[p] |->
                       Normalise(Metrics.Classes[p[1]].Types[p[2]].Elements[p[3]],
                                 l, hist.drained[p][l])]
             /\ Values[p] = EmptyMap

\* C9 witness: an update that dropped a label of the previous cycle and stored a new one
C9_Witness ==
    /\ hist.last = "update" /\ hist.dropped
    /\ \E p \in PlainPaths(Metrics) :
          UniqueKey(Metrics, p) /\ metrics[KeyOf(Metrics, p)].values # EmptyMap

\* C10: after a second updateMetrics with no sample cached since the first,
\* every entry's values are empty
C10_SecondUpdateEmpty ==
    (hist.last = "update" /\ hist.twice) =>
       \A k \in DOMAIN metrics : metrics[k].values = EmptyMap

\* C10 witness: the second update emptied values the first one had stored
C10_Witness ==
    hist.last = "update" /\ hist.twice /\ hist.dropped

\* C11: the worker is stopped only by the loop test finding keepRunning
\* cleared (never while the flag is set); whatever the number of failed passes
\* the loop test and the next connect attempt remain possible; with the flag
\* set the loop test leads to a connect attempt; once stopped, the worker
\* takes no further step
C11_StopsOnlyOnFlag ==
    /\ [](pc = "stopped" => ~keepRunning /\ hist.last = "test")
    /\ [](pc = "top" => ENABLED LoopTest)
    /\ [](pc = "connect" => ENABLED DoConnectFail)
    /\ [][pc = "top" /\ keepRunning /\ pc' # pc => pc' = "connect"]_vars
    /\ [][pc' = "stopped" /\ pc # "stopped" => pc = "top" /\ ~keepRunning]_vars
    /\ [][pc = "stopped" => pc' = "stopped" /\ hist' = hist /\ err' = err /\ lifetime' = lifetime]_vars

\* C11 witness: the worker has stopped after a failed connect attempt that followed a successful one
C11_Witness ==
    pc = "stopped" /\ err = "connect" /\ lifetime >= 1

C13_RegistryBuiltFirst ==
    /\ [](pc \in InnerLoop => RegistryCurrent)
    /\ [](pc \in {"connected", "init"} =>
             metricsOf < lifetime /\ \A c \in Callers : cpc[c] # "waiting")
    /\ [](hist.last \in {"accept", "update", "reply"} => RegistryCurrent)
    /\ [][\A c \in Callers :
             (cpc[c] = "waiting" /\ cpc'[c] = "reading") =>
                (snap'[c] = lifetime /\ metricsOf = lifetime)]_vars
    /\ [][metricsOf' # metricsOf => (pc = "init" /\ metricsOf' = lifetime)]_vars

\* C13 witness: a caller holds the registry of the second connection lifetime
C13_Witness ==
    lifetime = 2 /\ hist.last = "reply" /\ \E c \in Callers : cpc[c] = "reading" /\ snap[c] = 2

\* the callers whose request the worker has accepted and not yet answered
Unanswered == {c \in Callers : cpc[c] = "waiting"}

\* C14: with callers that take no lock, at most one request is accepted and
\* unanswered at any moment, the worker sends exactly one response for each
\* accepted request and none without one, and the response is received by the
\* caller whose request was accepted
C14_RequestResponsePairing ==
    /\ [](Cardinality(Unanswered) <= 1)
    /\ [](pc \in {"update", "reply"} <=> Cardinality(Unanswered) = 1)
    /\ [][\A c \in Callers :
             (cpc[c] = "sending" /\ cpc'[c] = "waiting") =>
                (pc = "select" /\ Unanswered = {} /\ pc' \in {"update", "reply"})]_vars
    /\ [][\A c \in Callers :
             (cpc[c] # "reading" /\ cpc'[c] = "reading") =>
                (pc = "reply" /\ Unanswered = {c} /\ Unanswered' = {}
                 /\ pc' \notin {"update", "reply"}
                 /\ \A d \in Callers \ {c} : cpc'[d] = cpc[d])]_vars
    /\ [][(pc = "reply" /\ pc' # "reply") =>
             (\E c \in Callers : cpc[c] = "waiting" /\ cpc'[c] = "reading")]_vars

\* C14 witness: the worker is about to answer one caller while the other is
\* blocked sending its own request
C14_Witness ==
    pc = "reply" /\ cpc["c1"] = "waiting" /\ cpc["c2"] = "sending"

\* C15: once initialiseMetrics has returned, no step of the connection
\* lifetime (drain, request with either flag, updateMetrics, timeout) adds or
\* removes a key of the registry or changes an entry's name or description;
\* only the values of the entries are rewritten
C15_KeySetFixed ==
    /\ [][metricsOf' = metricsOf =>
             /\ DOMAIN metrics' = DOMAIN metrics
             /\ \A k \in DOMAIN metrics :
                   /\ metrics'[k].name = metrics[k].name
                   /\ metrics'[k].description = metrics[k].description]_vars
    /\ [](RegistryCurrent =>
             /\ DOMAIN metrics = { makeKey(Metrics, p) : p \in PlainPaths(Metrics) }
             /\ \A k \in DOMAIN metrics :
                   /\ metrics[k].name = ElementOf(Metrics, initFirst[k]).MetricName
                   /\ metrics[k].description = ElementOf(Metrics, initFirst[k]).Description)

\* C15 witness: updateMetrics has rewritten the values of an entry whose key
\* two elements share, the entry keeping the name and description it was built with
C15_Witness ==
    /\ hist.last = "update" /\ RegistryCurrent /\ DuplicateKeys(Metrics)
    /\ \E k \in DOMAIN metrics :
          /\ metrics[k].values # EmptyMap
          /\ metrics[k].description = ElementOf(Metrics, initFirst[k]).Description

\* C16: updateMetrics runs only after a request with flag true was accepted,
\* and before that request is answered; accepting a request with flag false,
\* replying and timing out leave the registry and the cached samples as they
\* are, so a request with flag false is answered with the samples of the last
\* drain still cached
C16_UpdateOnlyOnRequest ==
    /\ [](pc = "update" => collect /\ hist.last = "accept" /\ Unanswered # {})
    /\ [](pc = "reply" => hist.last = IF collect THEN "update" ELSE "accept")
    /\ [](pc = "reply" /\ ~collect => Values = hist.drained)
    /\ [][(pc \in {"select", "reply"}) => (metrics' = metrics /\ Values' = Values)]_vars
    /\ [][(pc = "select" /\ pc' \in {"update", "reply"}) =>
             (\E c \in Callers :
                 /\ cpc[c] = "sending" /\ cpc'[c] = "waiting"
                 /\ cflag[c] = (pc' = "update"))]_vars
    /\ [][(metricsOf' = metricsOf /\ metrics' # metrics) =>
             (pc = "update" /\ collect /\ pc' = "reply")]_vars

\* C16 witness: a request with flag false is about to be answered with the
\* values of an earlier update in the registry and a sample still cached
C16_Witness ==
    /\ pc = "reply" /\ ~collect
    /\ \E p \in DOMAIN Values : Values[p] # EmptyMap
    /\ \E k \in DOMAIN metrics : metrics[k].values # EmptyMap

\* C17: an element of a type with a parameterized topic gets no registry
\* entry from initialiseMetrics (every key of the registry is the key of a
\* non-parameterized element, and the entry was made from one), and
\* updateMetrics neither stores its cached samples in an entry nor clears them
C17_ParameterizedSkipped ==
    /\ [](RegistryCurrent =>
             /\ DOMAIN metrics = { makeKey(Metrics, p) : p \in PlainPaths(Metrics) }
             /\ \A k \in DOMAIN metrics : ~Parameterized(Metrics, initFirst[k]))
    /\ [](hist.last = "update" =>
             /\ \A p \in Paths(Metrics) :
                   Parameterized(Metrics, p) => Values[p] = hist.drained[p]
             /\ \A k \in DOMAIN metrics :
                   \E p \in PlainPaths(Metrics) :
                      /\ makeKey(Metrics, p) = k
                      /\ metrics[k].values =
                            freshValues(ElementOf(Metrics, p), hist.drained[p]))
    /\ [][pc = "update" =>
             \A p \in Paths(Metrics) :
                Parameterized(Metrics, p) => Values'[p] = Values[p]]_vars

\* C17 witness: updateMetrics has stored and cleared the samples of a plain
\* element and left those of a parameterized element cached
C17_Witness ==
    /\ hist.last = "update"
    /\ \E p \in Paths(Metrics) : Parameterized(Metrics, p) /\ Values[p] # EmptyMap
    /\ \E q \in PlainPaths(Metrics) : hist.drained[q] # EmptyMap /\ Values[q] = EmptyMap

\* C18: hist.ends counts the EndConnection calls made since the last connect
\* attempt. Every connect attempt, failed or successful, is followed by
\* exactly one EndConnection before the next attempt: the count never exceeds
\* one, it is one whenever the worker is back at the loop test or at the next
\* connect, and after a failed connect the teardown is the step that follows
\* the log
C18_OneTeardownPerAttempt ==
    /\ [](hist.ends <= 1)
    /\ [](pc \in {"top", "connect", "stopped"} /\ hist.attempted => hist.ends = 1)
    /\ [](pc \in {"log", "end"} \/ pc \in InnerLoop \/ pc \in {"connected", "init"}
             => hist.ends = 0)
    /\ [](pc = "sleep" => hist.ends = 1 /\ hist.last = "end")
    /\ [](pc = "end" => ENABLED EndConnection)
    /\ [][(pc = "connect" /\ pc' # "connect") =>
             ((hist.attempted => hist.ends = 1) /\ hist'.ends = 0)]_vars
    /\ [][(hist'.ends # hist.ends /\ hist'.ends # 0) =>
             (pc = "end" /\ pc' = "sleep" /\ hist'.ends = 1)]_vars

\* C18 witness: no connect has succeeded yet, the teardown was made after a
\* failed attempt, and the worker is at its next attempt
C18_Witness ==
    pc = "connect" /\ err = "connect" /\ lifetime = 0 /\ hist.ends = 1 /\ ~hist.connOK

\* the worker is blocked in responseChannel <- metrics with no caller receiving
Wedged == pc = "reply" /\ Unanswered = {}

\* C19: the worker leaves the reply only by a caller receiving the response;
\* while it is blocked there it drains no publication, detects no failure,
\* tears nothing down and does not reconnect, and when the requesting caller
\* has gone away without receiving, no step of the worker is possible and the
\* worker stays blocked for ever
C19_BlockedInReply ==
    /\ [][(pc = "reply" /\ pc' # "reply") =>
             (\E c \in Callers : cpc[c] = "waiting" /\ cpc'[c] = "reading")]_vars
    /\ [][(pc = "reply" /\ pc' = "reply") =>
             /\ hist' = hist /\ err' = err /\ lifetime' = lifetime
             /\ Values' = Values /\ metrics' = metrics /\ Metrics' = Metrics]_vars
    /\ [](Wedged => ~ENABLED Worker(Callers, {"a"}, {1}))
    /\ [][Wedged => Wedged']_vars

\* C19 witness: the drain had failed before the request was accepted, the
\* requesting caller has gone away, and the worker is blocked in the reply
\* while another caller is blocked sending its request
C19_Witness ==
    Wedged /\ err = "drain" /\ \E c \in Callers : cpc[c] = "sending"

\* C20: right after updateMetrics on a catalog in which two non-parameterized
\* elements share a key, the shared entry still has the name and description
\* of the element initialiseMetrics visited first, its values are exactly the
\* normalised samples of the element updateMetrics visited last (those of the
\* other element are not in it), and the caches of both elements are empty
C20_SharedEntryLastWins ==
    hist.last = "update" =>
       \A p, q \in PlainPaths(Metrics) :
          (p # q /\ makeKey(Metrics, p) = makeKey(Metrics, q)) =>
             LET k == makeKey(Metrics, p)
                 l == hist.updLast[k]
                 f == initFirst[k]
             IN /\ l \in {p, q} /\ f \in {p, q}
                /\ metrics[k].name = ElementOf(Metrics, f).MetricName
                /\ metrics[k].description = ElementOf(Metrics, f).Description
                /\ metrics[k].values = freshValues(ElementOf(Metrics, l), hist.drained[l])
                /\ Values[p] = EmptyMap /\ Values[q] = EmptyMap

\* C20 witness: both elements had a sample cached, the element visited last by
\* updateMetrics is not the one the entry was built from, and the entry holds
\* the samples of that last element only
C20_Witness ==
    /\ hist.last = "update"
    /\ \E k \in DOMAIN metrics :
          /\ k \in DOMAIN hist.updLast
          /\ initFirst[k] # hist.updLast[k]
          /\ hist.drained[initFirst[k]] # EmptyMap
          /\ hist.drained[hist.updLast[k]] # EmptyMap
          /\ metrics[k].values #
                freshValues(ElementOf(Metrics, initFirst[k]), hist.drained[initFirst[k]])
          /\ metrics[k].description = ElementOf(Metrics, initFirst[k]).Description

====
